---- MODULE Spec2Model ----
(***************************************************************************)
(* Tic Tac Toe backend: the rules engine (api/game_logic.py), the storage  *)
(* layer (api/database.py) and the request handlers (api/main.py).         *)
(***************************************************************************)
EXTENDS Integers, Sequences, FiniteSets, TLC

VARIABLES
    games,      \* the "games" table: row i is the Game with id i
    clock,      \* the time source behind func.now() and datetime.utcnow()
    resp,       \* the response of the last handler that ran to completion
    clients,    \* the make_move requests in flight (interleaved executions)
    overlaps,   \* how many requests began while another one was in flight
    tboard,     \* rules engine under test: the caller's board
    tcall       \* rules engine under test: the last call, its arguments and result

vars == <<games, clock, resp, clients, overlaps, tboard, tcall>>

----------------------------------------------------------------------------
(* Bounds of the model *)

MaxGames == 1      \* games the store may hold
MaxClients == 2    \* make_move requests that may be in flight together
MaxClock == 4      \* last reading of the clock an interleaved execution may take
MaxOverlaps == 1   \* requests that may begin while another one is in flight
Reach == 3         \* a request aims at one of the first Reach empty cells (row-major)
ConcReach == 2     \* the same, for requests of interleaved executions
CoordSlack == 1    \* how far outside 0..2 a requested row or col may lie
StoreGames == 3    \* games the store may hold when several games are played
StoreReach == 1    \* Reach, when several games are played
MaxPage == 3       \* largest limit and offset of a list request

----------------------------------------------------------------------------
(* api/game_logic.py *)

None == "None"

PlayerX == "X"
PlayerO == "O"
Player == {PlayerX, PlayerO}

IN_PROGRESS == "IN_PROGRESS"
DRAW == "DRAW"
WINNER_X == "WINNER_X"
WINNER_O == "WINNER_O"
GameStatus == {IN_PROGRESS, DRAW, WINNER_X, WINNER_O}

Idx == 0..2
Mark == {None, PlayerX, PlayerO}
Boards == [Idx -> [Idx -> Mark]]

initial_board == [i \in Idx |-> [j \in Idx |-> None]]

CountMark(board, m) == Cardinality({ij \in Idx \X Idx : board[ij[1]][ij[2]] = m})

get_next_player_ge(board) ==
    LET x_count == CountMark(board, PlayerX)
        o_count == CountMark(board, PlayerO)
    IN  IF x_count >= o_count THEN PlayerO ELSE PlayerX

get_next_player(board) ==
    LET x_count == CountMark(board, PlayerX)
        o_count == CountMark(board, PlayerO)
    IN  IF x_count > o_count THEN PlayerO ELSE PlayerX

WinLines_one_diag ==
    << <<(<<0, 0>>), (<<0, 1>>), (<<0, 2>>)>>,
       <<(<<1, 0>>), (<<1, 1>>), (<<1, 2>>)>>,
       <<(<<2, 0>>), (<<2, 1>>), (<<2, 2>>)>>,
       <<(<<0, 0>>), (<<1, 0>>), (<<2, 0>>)>>,
       <<(<<0, 1>>), (<<1, 1>>), (<<2, 1>>)>>,
       <<(<<0, 2>>), (<<1, 2>>), (<<2, 2>>)>>,
       <<(<<0, 0>>), (<<1, 1>>), (<<2, 2>>)>>,
       <<(<<0, 0>>), (<<1, 1>>), (<<2, 2>>)>> >>

\* list(lines) + list(cols) + diags: rows 0..2, columns 0..2, the two diagonals
WinLines ==
    << <<(<<0, 0>>), (<<0, 1>>), (<<0, 2>>)>>,
       <<(<<1, 0>>), (<<1, 1>>), (<<1, 2>>)>>,
       <<(<<2, 0>>), (<<2, 1>>), (<<2, 2>>)>>,
       <<(<<0, 0>>), (<<1, 0>>), (<<2, 0>>)>>,
       <<(<<0, 1>>), (<<1, 1>>), (<<2, 1>>)>>,
       <<(<<0, 2>>), (<<1, 2>>), (<<2, 2>>)>>,
       <<(<<0, 0>>), (<<1, 1>>), (<<2, 2>>)>>,
       <<(<<0, 2>>), (<<1, 1>>), (<<2, 0>>)>> >>

LineMarks(board, line) == [k \in 1..3 |-> board[line[k][1]][line[k][2]]]

LineComplete(board, line) ==
    LET line_marks == LineMarks(board, line)
    IN  /\ line_marks[1] # None
        /\ \A k \in 1..3 : line_marks[k] = line_marks[1]

RECURSIVE ScanLines(_, _)
ScanLines(board, n) ==
    IF n > Len(WinLines) THEN None
    ELSE LET line_marks == LineMarks(board, WinLines[n])
         IN  IF LineComplete(board, WinLines[n]) /\ line_marks[1] = PlayerX
             THEN PlayerX
             ELSE IF LineComplete(board, WinLines[n]) /\ line_marks[1] = PlayerO
             THEN PlayerO
             ELSE ScanLines(board, n + 1)

check_winner(board) == ScanLines(board, 1)

is_draw(board) ==
    IF \E i \in Idx, j \in Idx : board[i][j] = None
    THEN FALSE
    ELSE check_winner(board) = None

get_game_status_full_first(board) ==
    LET winner == check_winner(board)
    IN  IF \A i \in Idx, j \in Idx : board[i][j] # None THEN DRAW
        ELSE IF winner = PlayerX THEN WINNER_X
        ELSE IF winner = PlayerO THEN WINNER_O
        ELSE IN_PROGRESS

get_game_status(board) ==
    LET winner == check_winner(board)
    IN  IF winner = PlayerX THEN WINNER_X
        ELSE IF winner = PlayerO THEN WINNER_O
        ELSE IF is_draw(board) THEN DRAW
        ELSE IN_PROGRESS

OutOfBounds == "Move out of bounds."
CellOccupied == "Cell already taken."
WrongTurn(expected_player) ==
    IF expected_player = PlayerX THEN "It's X's turn." ELSE "It's O's turn."
WrongTurnErrors == {WrongTurn(p) : p \in Player}

play_move_no_turn(board, row, col, player) ==
    IF row < 0 \/ row > 2 \/ col < 0 \/ col > 2
    THEN [arg |-> board, board |-> board, error |-> OutOfBounds]
    ELSE IF board[row][col] # None
    THEN [arg |-> board, board |-> board, error |-> CellOccupied]
    ELSE [arg |-> board, board |-> [board EXCEPT ![row][col] = player], error |-> None]

play_move_in_place(board, row, col, player) ==
    IF row < 0 \/ row > 2 \/ col < 0 \/ col > 2
    THEN [arg |-> board, board |-> board, error |-> OutOfBounds]
    ELSE IF board[row][col] # None
    THEN [arg |-> board, board |-> board, error |-> CellOccupied]
    ELSE LET expected_player == get_next_player(board)
         IN  IF player # expected_player
             THEN [arg |-> board, board |-> board, error |-> WrongTurn(expected_player)]
             ELSE LET next_board == [board EXCEPT ![row][col] = player]
                  IN  [arg |-> next_board, board |-> next_board, error |-> None]

play_move_turn_first(board, row, col, player) ==
    IF row < 0 \/ row > 2 \/ col < 0 \/ col > 2
    THEN [arg |-> board, board |-> board, error |-> OutOfBounds]
    ELSE LET expected_player == get_next_player(board)
         IN  IF player # expected_player
             THEN [arg |-> board, board |-> board, error |-> WrongTurn(expected_player)]
             ELSE IF board[row][col] # None
             THEN [arg |-> board, board |-> board, error |-> CellOccupied]
             ELSE LET next_board == [board EXCEPT ![row][col] = player]
                  IN  [arg |-> board, board |-> next_board, error |-> None]

play_move_guard_finished(board, row, col, player) ==
    IF row < 0 \/ row > 2 \/ col < 0 \/ col > 2
    THEN [arg |-> board, board |-> board, error |-> OutOfBounds]
    ELSE IF board[row][col] # None
    THEN [arg |-> board, board |-> board, error |-> CellOccupied]
    ELSE LET expected_player == get_next_player(board)
         IN  IF player # expected_player \/ check_winner(board) # None
             THEN [arg |-> board, board |-> board, error |-> WrongTurn(expected_player)]
             ELSE LET next_board == [board EXCEPT ![row][col] = player]
                  IN  [arg |-> board, board |-> next_board, error |-> None]

\* play_move returns (updated_board, error_message).  "arg" is the caller's list
\* object as the call leaves it: the code writes only into the row copies.
play_move(board, row, col, player) ==
    IF row < 0 \/ row > 2 \/ col < 0 \/ col > 2
    THEN [arg |-> board, board |-> board, error |-> OutOfBounds]
    ELSE IF board[row][col] # None
    THEN [arg |-> board, board |-> board, error |-> CellOccupied]
    ELSE LET expected_player == get_next_player(board)
         IN  IF player # expected_player
             THEN [arg |-> board, board |-> board, error |-> WrongTurn(expected_player)]
             ELSE LET next_board == [board EXCEPT ![row][col] = player]
                  IN  [arg |-> board, board |-> next_board, error |-> None]

----------------------------------------------------------------------------
(* api/database.py *)

\* json.dumps / json.loads of a board: None is written as null
json_dumps_board(board) ==
    [i \in Idx |-> [j \in Idx |-> IF board[i][j] = None THEN "null" ELSE board[i][j]]]
json_loads_board(text) ==
    [i \in Idx |-> [j \in Idx |-> IF text[i][j] = "null" THEN None ELSE text[i][j]]]

\* json.dumps / json.loads of the move list: each dict is written as its
\* key/value pairs in insertion order (player, row, col)
json_dumps_moves(moves) ==
    [k \in 1..Len(moves) |->
        << <<"player", moves[k].player>>, <<"row", moves[k].row>>, <<"col", moves[k].col>> >>]
json_loads_moves(text) ==
    [k \in 1..Len(text) |->
        [player |-> text[k][1][2], row |-> text[k][2][2], col |-> text[k][3][2]]]

\* A DateTime value; NULL is the empty tuple
NoTime == <<>>
Timestamp(t) == <<t>>

\* get_game's None
NoGame == [found |-> FALSE]

create_game_reuse_id(table, moves, board, status, winner, now) ==
    Append(table, [id          |-> IF Len(table) = 0 THEN 1 ELSE Len(table),
                   moves       |-> json_dumps_moves(moves),
                   board       |-> json_dumps_board(board),
                   status      |-> status,
                   winner      |-> winner,
                   created_at  |-> now,
                   finished_at |-> NoTime])

\* create_game: INSERT of a new row; the primary key is the next integer,
\* created_at is the server default now(), finished_at is NULL
create_game(table, moves, board, status, winner, now) ==
    Append(table, [id          |-> Len(table) + 1,
                   moves       |-> json_dumps_moves(moves),
                   board       |-> json_dumps_board(board),
                   status      |-> status,
                   winner      |-> winner,
                   created_at  |-> now,
                   finished_at |-> NoTime])

HasGame(table, game_id) == game_id \in 1..Len(table)

update_game_all_rows(table, game_id, moves, board, status, winner, finished_at) ==
    IF ~HasGame(table, game_id)
    THEN table
    ELSE [i \in 1..Len(table) |->
            [table[i] EXCEPT !.moves       = json_dumps_moves(moves),
                             !.board       = json_dumps_board(board),
                             !.status      = status,
                             !.winner      = winner,
                             !.finished_at = IF finished_at # NoTime THEN finished_at ELSE @]]

update_game_keep_board(table, game_id, moves, board, status, winner, finished_at) ==
    IF ~HasGame(table, game_id)
    THEN table
    ELSE [table EXCEPT ![game_id] =
            [@ EXCEPT !.moves       = json_dumps_moves(moves),
                      !.status      = status,
                      !.winner      = winner,
                      !.finished_at = IF finished_at # NoTime THEN finished_at ELSE @]]

update_game_keep_status(table, game_id, moves, board, status, winner, finished_at) ==
    IF ~HasGame(table, game_id)
    THEN table
    ELSE [table EXCEPT ![game_id] =
            [@ EXCEPT !.moves       = json_dumps_moves(moves),
                      !.board       = json_dumps_board(board),
                      !.winner      = winner,
                      !.finished_at = IF finished_at # NoTime THEN finished_at ELSE @]]

\* update_game: finished_at is written only when the argument is truthy
update_game(table, game_id, moves, board, status, winner, finished_at) ==
    IF ~HasGame(table, game_id)
    THEN table
    ELSE [table EXCEPT ![game_id] =
            [@ EXCEPT !.moves       = json_dumps_moves(moves),
                      !.board       = json_dumps_board(board),
                      !.status      = status,
                      !.winner      = winner,
                      !.finished_at = IF finished_at # NoTime THEN finished_at ELSE @]]

get_game(table, game_id) ==
    IF ~HasGame(table, game_id)
    THEN NoGame
    ELSE LET game == table[game_id]
         IN  [id          |-> game.id,
              moves       |-> json_loads_moves(game.moves),
              board       |-> json_loads_board(game.board),
              status      |-> game.status,
              winner      |-> game.winner,
              created_at  |-> game.created_at,
              finished_at |-> game.finished_at]

GameDict(game) ==
    [id          |-> game.id,
     moves       |-> json_loads_moves(game.moves),
     board       |-> json_loads_board(game.board),
     status      |-> game.status,
     winner      |-> game.winner,
     created_at  |-> game.created_at,
     finished_at |-> game.finished_at]

\* ORDER BY id DESC: the k-th row is the one with k-1 rows of larger id
OrderByIdDesc(table) ==
    [k \in 1..Len(table) |->
        table[CHOOSE i \in 1..Len(table) :
                  Cardinality({j \in 1..Len(table) : table[j].id > table[i].id}) = k - 1]]

OrderByIdAsc(table) ==
    [k \in 1..Len(table) |->
        table[CHOOSE i \in 1..Len(table) :
                  Cardinality({j \in 1..Len(table) : table[j].id < table[i].id}) = k - 1]]

list_games_asc(table, limit, offset) ==
    LET ordered == OrderByIdAsc(table)
        last == IF offset + limit < Len(ordered) THEN offset + limit ELSE Len(ordered)
        rows == SubSeq(ordered, offset + 1, last)
    IN  [k \in 1..Len(rows) |-> GameDict(rows[k])]

\* list_games: ORDER BY id DESC LIMIT limit OFFSET offset (limit, offset >= 0)
list_games(table, limit, offset) ==
    LET ordered == OrderByIdDesc(table)
        last == IF offset + limit < Len(ordered) THEN offset + limit ELSE Len(ordered)
        rows == SubSeq(ordered, offset + 1, last)
    IN  [k \in 1..Len(rows) |-> GameDict(rows[k])]

----------------------------------------------------------------------------
(* api/schemas.py and api/main.py *)

\* GameMoveRequest: player is a Player, row and col are integers in 0..2
ValidMoveRequest(player, row, col) ==
    player \in Player /\ row >= 0 /\ row <= 2 /\ col >= 0 /\ col <= 2

ValidationError == "validation error"
GameNotFound == "Game not found"
GameFinished == "Game is already finished."
TerminalStatuses == {WINNER_X, WINNER_O, DRAW}

\* GameStatusResponse built from a fetched game
GameView(game) ==
    [id |-> game.id, board |-> game.board, moves |-> game.moves,
     status |-> game.status, winner |-> game.winner,
     created_at |-> game.created_at, finished_at |-> game.finished_at]

\* A response: the handler, the game id of the request, the HTTP status code,
\* the detail of an HTTPException and the body of a GameStatusResponse
Ok(op, game_id, code, game) ==
    [op |-> op, game_id |-> game_id, code |-> code, detail |-> None, body |-> GameView(game)]
Fail(op, game_id, code, detail) ==
    [op |-> op, game_id |-> game_id, code |-> code, detail |-> detail, body |-> NoGame]

MoveOutcome_no_append(game, player, row, col, now) ==
    IF game = NoGame
    THEN [code |-> 404, error |-> GameNotFound]
    ELSE IF game.status \in TerminalStatuses
    THEN [code |-> 400, error |-> GameFinished]
    ELSE
      LET played == play_move(game.board, row, col, player)
      IN  IF played.error # None
          THEN [code |-> 400, error |-> played.error]
          ELSE
            LET moves == game.moves
                new_status == get_game_status(played.board)
                new_winner == IF new_status = WINNER_X THEN PlayerX
                              ELSE IF new_status = WINNER_O THEN PlayerO
                              ELSE None
                finished_timestamp == IF new_status \in TerminalStatuses
                                      THEN Timestamp(now) ELSE NoTime
            IN  [code |-> 200, error |-> None, moves |-> moves, board |-> played.board,
                 status |-> new_status, winner |-> new_winner,
                 finished_at |-> finished_timestamp]

MoveOutcome_no_finished_check(game, player, row, col, now) ==
    IF game = NoGame
    THEN [code |-> 404, error |-> GameNotFound]
    ELSE
      LET played == play_move(game.board, row, col, player)
      IN  IF played.error # None
          THEN [code |-> 400, error |-> played.error]
          ELSE
            LET moves == Append(game.moves, [player |-> player, row |-> row, col |-> col])
                new_status == get_game_status(played.board)
                new_winner == IF new_status = WINNER_X THEN PlayerX
                              ELSE IF new_status = WINNER_O THEN PlayerO
                              ELSE None
                finished_timestamp == IF new_status \in TerminalStatuses
                                      THEN Timestamp(now) ELSE NoTime
            IN  [code |-> 200, error |-> None, moves |-> moves, board |-> played.board,
                 status |-> new_status, winner |-> new_winner,
                 finished_at |-> finished_timestamp]

\* make_move between get_game and update_game: the finished check, play_move,
\* and the values handed to update_game (error is None) or the HTTPException
MoveOutcome(game, player, row, col, now) ==
    IF game = NoGame
    THEN [code |-> 404, error |-> GameNotFound]
    ELSE IF game.status \in TerminalStatuses
    THEN [code |-> 400, error |-> GameFinished]
    ELSE
      LET played == play_move(game.board, row, col, player)
      IN  IF played.error # None
          THEN [code |-> 400, error |-> played.error]
          ELSE
            LET moves == Append(game.moves, [player |-> player, row |-> row, col |-> col])
                new_status == get_game_status(played.board)
                new_winner == IF new_status = WINNER_X THEN PlayerX
                              ELSE IF new_status = WINNER_O THEN PlayerO
                              ELSE None
                finished_timestamp == IF new_status \in TerminalStatuses
                                      THEN Timestamp(now) ELSE NoTime
            IN  [code |-> 200, error |-> None, moves |-> moves, board |-> played.board,
                 status |-> new_status, winner |-> new_winner,
                 finished_at |-> finished_timestamp]

Coords == (0 - CoordSlack)..(2 + CoordSlack)
GameIds == 1..(MaxGames + 1)

NoResponse == [op |-> "none", game_id |-> 0, code |-> 0, detail |-> None, body |-> NoGame]
NoCall == [fn |-> "none"]
ClientIds == 1..MaxClients
Idle == [pc |-> "idle"]

Init ==
    /\ games = <<>>
    /\ clock = 1
    /\ resp = NoResponse
    /\ clients = [c \in ClientIds |-> Idle]
    /\ overlaps = 0
    /\ tboard = initial_board
    /\ tcall = NoCall

\* POST /games/
StartGame(first_player) ==
    /\ LET board == initial_board
           moves == <<>>
           status == get_game_status(board)
           table == create_game(games, moves, board, status, None, Timestamp(clock))
           game_id == table[Len(table)].id
       IN  /\ games' = table
           /\ resp' = Ok("start_game", game_id, 201, get_game(table, game_id))
    /\ clock' = clock + 1
    /\ UNCHANGED <<clients, overlaps, tboard, tcall>>

MakeMove_persist_rejected(game_id, player, row, col) ==
    /\ IF ~ValidMoveRequest(player, row, col)
       THEN /\ resp' = Fail("make_move", game_id, 422, ValidationError)
            /\ UNCHANGED <<games, clock>>
       ELSE LET game == get_game(games, game_id)
                out == MoveOutcome(game, player, row, col, clock)
                move == [player |-> player, row |-> row, col |-> col]
            IN  IF out.error # None
                THEN /\ resp' = Fail("make_move", game_id, out.code, out.error)
                     /\ games' = IF game = NoGame \/ out.error = GameFinished
                                 THEN games
                                 ELSE update_game(games, game_id, Append(game.moves, move),
                                                  game.board, game.status, game.winner, NoTime)
                     /\ UNCHANGED clock
                ELSE LET table == update_game(games, game_id, out.moves, out.board,
                                              out.status, out.winner, out.finished_at)
                     IN  /\ games' = table
                         /\ clock' = IF out.finished_at # NoTime THEN clock + 1 ELSE clock
                         /\ resp' = Ok("make_move", game_id, 200, get_game(table, game_id))
    /\ UNCHANGED <<clients, overlaps, tboard, tcall>>

\* POST /games/{game_id}/move/ run from request to response with no other
\* request in between
MakeMove(game_id, player, row, col) ==
    /\ IF ~ValidMoveRequest(player, row, col)
       THEN /\ resp' = Fail("make_move", game_id, 422, ValidationError)
            /\ UNCHANGED <<games, clock>>
       ELSE LET game == get_game(games, game_id)
                out == MoveOutcome(game, player, row, col, clock)
            IN  IF out.error # None
                THEN /\ resp' = Fail("make_move", game_id, out.code, out.error)
                     /\ UNCHANGED <<games, clock>>
                ELSE LET table == update_game(games, game_id, out.moves, out.board,
                                              out.status, out.winner, out.finished_at)
                     IN  /\ games' = table
                         /\ clock' = IF out.finished_at # NoTime THEN clock + 1 ELSE clock
                         /\ resp' = Ok("make_move", game_id, 200, get_game(table, game_id))
    /\ UNCHANGED <<clients, overlaps, tboard, tcall>>

\* The requests the model sends: any game id, player and coordinates, except
\* that an empty cell is aimed at only if fewer than Reach empty cells come
\* before it in row-major order
EmptyBefore(board, row, col) ==
    Cardinality({ij \in Idx \X Idx :
        /\ board[ij[1]][ij[2]] = None
        /\ ij[1] * 3 + ij[2] < row * 3 + col})

InReach(table, game_id, row, col, reach) ==
    IF ~HasGame(table, game_id) \/ row \notin Idx \/ col \notin Idx
    THEN TRUE
    ELSE LET board == get_game(table, game_id).board
         IN  board[row][col] # None \/ EmptyBefore(board, row, col) < reach

Next ==
    \/ \E first_player \in Player \cup {None} :
          Len(games) < MaxGames /\ StartGame(first_player)
    \/ \E game_id \in GameIds, player \in Player, row \in Coords, col \in Coords :
          InReach(games, game_id, row, col, Reach) /\ MakeMove(game_id, player, row, col)

Spec == Init /\ [][Next]_vars

\* GET /games/{game_id}/
GetGameStatusApi(game_id) ==
    /\ LET game == get_game(games, game_id)
       IN  resp' = IF game = NoGame
                   THEN Fail("get_game", game_id, 404, GameNotFound)
                   ELSE Ok("get_game", game_id, 200, game)
    /\ UNCHANGED <<games, clock, clients, overlaps, tboard, tcall>>

GameHistoryItem(g) ==
    [id |-> g.id, status |-> g.status, winner |-> g.winner,
     created_at |-> g.created_at, finished_at |-> g.finished_at]

\* GET /games/?limit=&offset=
ListGameHistory(limit, offset) ==
    /\ LET listed == list_games(games, limit, offset)
       IN  resp' = [op |-> "list_games", game_id |-> 0, code |-> 200, detail |-> None,
                    body |-> NoGame, limit |-> limit, offset |-> offset,
                    items |-> [k \in 1..Len(listed) |-> GameHistoryItem(listed[k])]]
    /\ UNCHANGED <<games, clock, clients, overlaps, tboard, tcall>>

StoreGameIds == 1..(StoreGames + 1)
PageArgs == 0..MaxPage

\* Several games side by side, requests run one at a time
NextStore ==
    \/ \E first_player \in Player \cup {None} :
          Len(games) < StoreGames /\ StartGame(first_player)
    \/ \E game_id \in StoreGameIds, player \in Player, row \in Idx, col \in Idx :
          InReach(games, game_id, row, col, StoreReach) /\ MakeMove(game_id, player, row, col)
    \/ \E game_id \in StoreGameIds : GetGameStatusApi(game_id)
    \/ \E limit \in PageArgs, offset \in PageArgs : ListGameHistory(limit, offset)

SpecStore == Init /\ [][NextStore]_vars

----------------------------------------------------------------------------
(* POST /games/{game_id}/move/ with other requests running in between: the
   handler does three database operations, each in a session of its own *)

\* get_game, the finished check, play_move and the values for update_game
BeginMove(c, game_id, player, row, col) ==
    /\ clients[c].pc = "idle"
    /\ IF ~ValidMoveRequest(player, row, col)
       THEN /\ resp' = Fail("make_move", game_id, 422, ValidationError)
            /\ UNCHANGED <<clients, clock, overlaps>>
       ELSE LET game == get_game(games, game_id)
                out == MoveOutcome(game, player, row, col, clock)
            IN  IF out.error # None
                THEN /\ resp' = Fail("make_move", game_id, out.code, out.error)
                     /\ UNCHANGED <<clients, clock, overlaps>>
                ELSE /\ out.finished_at # NoTime => clock < MaxClock
                     /\ IF \E d \in ClientIds : clients[d].pc # "idle"
                        THEN overlaps < MaxOverlaps /\ overlaps' = overlaps + 1
                        ELSE UNCHANGED overlaps
                     /\ clients' = [clients EXCEPT ![c] =
                                       [pc |-> "update", game_id |-> game_id, out |-> out]]
                     /\ clock' = IF out.finished_at # NoTime THEN clock + 1 ELSE clock
                     /\ UNCHANGED resp
    /\ UNCHANGED <<games, tboard, tcall>>

\* update_game
WriteBack(c) ==
    /\ clients[c].pc = "update"
    /\ LET out == clients[c].out
       IN  games' = update_game(games, clients[c].game_id, out.moves, out.board,
                                out.status, out.winner, out.finished_at)
    /\ clients' = [clients EXCEPT ![c].pc = "refetch"]
    /\ UNCHANGED <<clock, resp, overlaps, tboard, tcall>>

\* the closing get_game and the GameStatusResponse built from it
Respond(c) ==
    /\ clients[c].pc = "refetch"
    /\ resp' = Ok("make_move", clients[c].game_id, 200, get_game(games, clients[c].game_id))
    /\ clients' = [clients EXCEPT ![c] = Idle]
    /\ UNCHANGED <<games, clock, overlaps, tboard, tcall>>

NextConc ==
    \/ \E first_player \in Player \cup {None} :
          Len(games) < MaxGames /\ StartGame(first_player)
    \/ \E c \in ClientIds, game_id \in GameIds, player \in Player,
          row \in Coords, col \in Coords :
          InReach(games, game_id, row, col, ConcReach) /\ BeginMove(c, game_id, player, row, col)
    \/ \E c \in ClientIds : WriteBack(c)
    \/ \E c \in ClientIds : Respond(c)

SpecConc == Init /\ [][NextConc]_vars

----------------------------------------------------------------------------
(* The rules engine called directly: one call on an arbitrary 3x3 board *)

CallPlayMove(row, col, player) ==
    /\ tcall = NoCall
    /\ LET ret == play_move(tboard, row, col, player)
       IN  /\ tcall' = [fn |-> "play_move", board |-> tboard, row |-> row, col |-> col,
                        player |-> player, ret_board |-> ret.board, error |-> ret.error]
           /\ tboard' = ret.arg
    /\ UNCHANGED <<games, clock, resp, clients, overlaps>>

CallGetNextPlayer ==
    /\ tcall = NoCall
    /\ tcall' = [fn |-> "get_next_player", board |-> tboard, ret |-> get_next_player(tboard)]
    /\ UNCHANGED <<games, clock, resp, clients, overlaps, tboard>>

CallCheckWinner ==
    /\ tcall = NoCall
    /\ tcall' = [fn |-> "check_winner", board |-> tboard, ret |-> check_winner(tboard)]
    /\ UNCHANGED <<games, clock, resp, clients, overlaps, tboard>>

CallIsDraw ==
    /\ tcall = NoCall
    /\ tcall' = [fn |-> "is_draw", board |-> tboard, ret |-> is_draw(tboard)]
    /\ UNCHANGED <<games, clock, resp, clients, overlaps, tboard>>

CallGetGameStatus ==
    /\ tcall = NoCall
    /\ tcall' = [fn |-> "get_game_status", board |-> tboard, ret |-> get_game_status(tboard)]
    /\ UNCHANGED <<games, clock, resp, clients, overlaps, tboard>>

InitEngine ==
    /\ games = <<>>
    /\ clock = 1
    /\ resp = NoResponse
    /\ clients = [c \in ClientIds |-> Idle]
    /\ overlaps = 0
    /\ tboard \in Boards
    /\ tcall = NoCall

NextEngine ==
    \/ \E row \in Coords, col \in Coords, player \in Player : CallPlayMove(row, col, player)
    \/ CallGetNextPlayer
    \/ CallCheckWinner
    \/ CallIsDraw
    \/ CallGetGameStatus

SpecEngine == InitEngine /\ [][NextEngine]_vars

----------------------------------------------------------------------------
(* The rules engine driven move by move from initial_board(): the caller keeps
   the returned board of every successful play_move *)

PlayOn(row, col, player) ==
    LET ret == play_move(tboard, row, col, player)
    IN  /\ tboard' = IF ret.error = None THEN ret.board ELSE ret.arg
        /\ tcall' = [fn |-> "play_move", error |-> ret.error]
        /\ UNCHANGED <<games, clock, resp, clients, overlaps>>

NextPlay ==
    \E row \in Coords, col \in Coords, player \in Player : PlayOn(row, col, player)

SpecPlay == Init /\ [][NextPlay]_vars

----------------------------------------------------------------------------
(* Properties of the rules engine *)

Filled(board) == \A i \in Idx, j \in Idx : board[i][j] # None

\* m holds a whole row, a whole column or a whole diagonal of the board
HasLine(board, m) ==
    \/ \E i \in Idx : \A j \in Idx : board[i][j] = m
    \/ \E j \in Idx : \A i \in Idx : board[i][j] = m
    \/ \A i \in Idx : board[i][i] = m
    \/ \A i \in Idx : board[i][2 - i] = m

\* The eight lines in the order row 0..2, column 0..2, main diagonal, anti-diagonal
OrderedLine(n) ==
    IF n <= 3 THEN [k \in 1..3 |-> <<n - 1, k - 1>>]
    ELSE IF n <= 6 THEN [k \in 1..3 |-> <<k - 1, n - 4>>]
    ELSE IF n = 7 THEN [k \in 1..3 |-> <<k - 1, k - 1>>]
    ELSE [k \in 1..3 |-> <<k - 1, 3 - k>>]

LineOf(board, n, m) == \A k \in 1..3 : board[OrderedLine(n)[k][1]][OrderedLine(n)[k][2]] = m

FirstLineMark(board) ==
    LET n == CHOOSE a \in 1..8 :
                 /\ \E m \in Player : LineOf(board, a, m)
                 /\ \A b \in 1..(a - 1) : \A m \in Player : ~LineOf(board, b, m)
    IN  board[OrderedLine(n)[1][1]][OrderedLine(n)[1][2]]

\* C3: on every board reached from initial_board() by successful play_move calls,
\* the number of X marks minus the number of O marks is 0 or 1.
C3_TurnOrder ==
    CountMark(tboard, PlayerX) - CountMark(tboard, PlayerO) \in {0, 1}

C3_Witness ==
    /\ tcall.fn = "play_move" /\ tcall.error = None
    /\ CountMark(tboard, PlayerX) = 5 /\ CountMark(tboard, PlayerO) = 4

\* C5: play_move succeeds exactly when row and col are in 0..2, the cell is empty
\* and the player is get_next_player(board); the board it then returns holds the
\* player's mark in that cell and equals the input board in the eight other cells.
C5_PlayMoveContract ==
    tcall.fn = "play_move" =>
        LET legal == IF tcall.row \in Idx /\ tcall.col \in Idx
                     THEN /\ tcall.board[tcall.row][tcall.col] = None
                          /\ tcall.player = get_next_player(tcall.board)
                     ELSE FALSE
        IN  /\ (tcall.error = None) <=> legal
            /\ tcall.error = None =>
                  \A i \in Idx, j \in Idx :
                      tcall.ret_board[i][j] =
                          IF i = tcall.row /\ j = tcall.col
                          THEN tcall.player ELSE tcall.board[i][j]

C5_Witness ==
    /\ tcall.fn = "play_move" /\ tcall.error = None
    /\ tcall.player = PlayerO
    /\ CountMark(tcall.ret_board, PlayerO) = 3

\* C6: play_move leaves the caller's board as it was, on success and on failure,
\* and on every failure the board it returns equals the input board.
C6_InputUntouched ==
    tcall.fn = "play_move" =>
        /\ tboard = tcall.board
        /\ tcall.error # None => tcall.ret_board = tcall.board

C6_Witness ==
    /\ tcall.fn = "play_move" /\ tcall.error = None
    /\ tcall.ret_board # tcall.board
    /\ tboard = tcall.board

\* C7: on every 3x3 board check_winner returns no winner iff no line is complete,
\* returns a mark only if that mark holds a complete line, returns the mark that
\* holds one when only one mark does, and when both marks hold a complete line
\* returns the mark of the first complete line in the order rows, columns,
\* main diagonal, anti-diagonal.
C7_CheckWinner ==
    tcall.fn = "check_winner" =>
        LET b == tcall.board
            anyLine == \E m \in Player : HasLine(b, m)
        IN  /\ (tcall.ret = None) <=> ~anyLine
            /\ \A m \in Player : tcall.ret = m => HasLine(b, m)
            /\ \A m \in Player :
                  (HasLine(b, m) /\ \A o \in Player \ {m} : ~HasLine(b, o)) => tcall.ret = m
            /\ anyLine => tcall.ret = FirstLineMark(b)

C7_Witness ==
    /\ tcall.fn = "check_winner"
    /\ HasLine(tcall.board, PlayerX) /\ HasLine(tcall.board, PlayerO)
    /\ \A j \in Idx : tcall.board[0][j] = PlayerO
    /\ tcall.ret = PlayerO

\* C8: get_game_status returns WINNER_X / WINNER_O when check_winner finds that
\* mark (a full board included), DRAW iff the board is full and has no winner,
\* IN_PROGRESS otherwise; is_draw is true iff the board is full and has no winner.
C8_StatusAndDraw ==
    /\ tcall.fn = "get_game_status" =>
          LET b == tcall.board
              w == check_winner(b)
          IN  /\ w = PlayerX => tcall.ret = WINNER_X
              /\ w = PlayerO => tcall.ret = WINNER_O
              /\ (tcall.ret = DRAW) <=> (Filled(b) /\ w = None)
              /\ (tcall.ret = IN_PROGRESS) <=> (~Filled(b) /\ w = None)
    /\ tcall.fn = "is_draw" =>
          (tcall.ret <=> (Filled(tcall.board) /\ check_winner(tcall.board) = None))

C8_Witness ==
    /\ tcall.fn = "get_game_status"
    /\ Filled(tcall.board)
    /\ CountMark(tcall.board, PlayerX) = 5
    /\ tcall.ret = WINNER_X

----------------------------------------------------------------------------
(* Properties of the game session service *)

StoredIds == 1..Len(games)
Terminal(game_id) == games[game_id].status \in TerminalStatuses

\* C1: once a stored game is finished, every make_move request on it that
\* reaches the handler (player X or O, row and col in 0..2) is answered
\* "Game is already finished." and leaves the stored game as it was.
C1_FinishedGuard ==
    [][\A id \in StoredIds :
          (Terminal(id) /\ resp'.op = "make_move" /\ resp'.game_id = id /\ resp'.code # 422)
              => (resp'.code = 400 /\ resp'.detail = GameFinished /\ games'[id] = games[id])]_vars

C1_Witness ==
    /\ resp.op = "make_move" /\ resp.detail = GameFinished
    /\ resp.game_id \in StoredIds
    /\ games[resp.game_id].status = WINNER_O
    /\ games[resp.game_id].finished_at # NoTime

\* C2: a make_move request that is rejected (404, 400 or 422) leaves the whole
\* store, every game and the set of game ids, as it was.
C2_RejectedMoveKeepsStore ==
    [][(resp'.op = "make_move" /\ resp'.code # 200) => games' = games]_vars

C2_Witness ==
    /\ resp.op = "make_move" /\ resp.code = 400
    /\ resp.detail \in WrongTurnErrors
    /\ resp.game_id \in StoredIds
    /\ Len(games[resp.game_id].moves) = 3

\* C4: every stored game's status is get_game_status of its stored board, and
\* its winner is X iff the status is WINNER_X, O iff WINNER_O, absent otherwise.
C4_StatusFromBoard ==
    \A id \in StoredIds :
        LET game == get_game(games, id)
        IN  /\ game.status = get_game_status(game.board)
            /\ (game.winner = PlayerX) <=> (game.status = WINNER_X)
            /\ (game.winner = PlayerO) <=> (game.status = WINNER_O)
            /\ (game.winner = None) <=> (game.status \in {IN_PROGRESS, DRAW})

C4_Witness ==
    \E id \in StoredIds :
        /\ get_game(games, id).status = DRAW
        /\ get_game(games, id).winner = None
        /\ Len(get_game(games, id).moves) = 9

\* C9: once a stored game's status is WINNER_X, WINNER_O or DRAW, its status,
\* moves and board never change again, whatever the interleaving of requests.
C9_TerminalAbsorbing ==
    [][\A id \in StoredIds :
          Terminal(id) => /\ games'[id].status = games[id].status
                          /\ games'[id].moves = games[id].moves
                          /\ games'[id].board = games[id].board]_vars

\* C10: a stored game has finished_at set iff its status is WINNER_X, WINNER_O
\* or DRAW, whatever the interleaving of requests.
C10_FinishedAtIffTerminal ==
    \A id \in StoredIds : (games[id].finished_at # NoTime) <=> Terminal(id)

\* C15: play_move picks its failure by fixed precedence: a row or col outside
\* 0..2 gives "Move out of bounds."; otherwise a non-empty cell gives "Cell
\* already taken.", also for the player whose turn it is not; "It's ...'s turn."
\* is reported only for an empty cell in bounds.
C15_FailurePrecedence ==
    tcall.fn = "play_move" =>
        LET inBounds == tcall.row \in Idx /\ tcall.col \in Idx
            taken == IF inBounds THEN tcall.board[tcall.row][tcall.col] # None ELSE FALSE
        IN  /\ ~inBounds => tcall.error = OutOfBounds
            /\ taken => tcall.error = CellOccupied
            /\ tcall.error \in WrongTurnErrors => (inBounds /\ ~taken)

\* the player who holds the cell plays it again, out of turn
C15_Witness ==
    /\ tcall.fn = "play_move" /\ tcall.error = CellOccupied
    /\ tcall.board = [initial_board EXCEPT ![0][0] = PlayerX]
    /\ tcall.row = 0 /\ tcall.col = 0 /\ tcall.player = PlayerX
    /\ get_next_player(tcall.board) = PlayerO

\* C16: play_move does not guard finished boards: on a board that already has a
\* winner it succeeds whenever the coordinates are in bounds, the cell is empty
\* and the player is get_next_player(board), and it has no failure other than
\* out of bounds, cell taken and wrong turn.
C16_NoFinishedGuardInEngine ==
    tcall.fn = "play_move" =>
        /\ tcall.error \in {None, OutOfBounds, CellOccupied} \cup WrongTurnErrors
        /\ (check_winner(tcall.board) # None /\ tcall.row \in Idx /\ tcall.col \in Idx) =>
              ((tcall.board[tcall.row][tcall.col] = None
                    /\ tcall.player = get_next_player(tcall.board))
                 => (tcall.error = None /\ tcall.ret_board[tcall.row][tcall.col] = tcall.player))

C16_Witness ==
    /\ tcall.fn = "play_move" /\ tcall.error = None
    /\ check_winner(tcall.board) = PlayerX
    /\ CountMark(tcall.board, PlayerX) = 3 /\ CountMark(tcall.board, PlayerO) = 2
    /\ tcall.player = PlayerO

\* C12: with requests run one at a time no stored board holds a complete line
\* of X and a complete line of O together, so check_winner returns the one mark
\* that holds a line, whatever the order in which it scans the lines.
C12_NoDoubleWinner ==
    \A id \in StoredIds :
        LET board == get_game(games, id).board
        IN  /\ ~(HasLine(board, PlayerX) /\ HasLine(board, PlayerO))
            /\ \A m \in Player : HasLine(board, m) => check_winner(board) = m

C12_Witness ==
    \E id \in StoredIds :
        /\ HasLine(get_game(games, id).board, PlayerO)
        /\ Len(get_game(games, id).moves) = 8

\* C17: every stored move list has X at positions 0, 2, 4, ... and O at
\* positions 1, 3, 5, ...; no two consecutive moves have the same player and no
\* two moves have the same (row, col).
C17_StrictAlternation ==
    \A id \in StoredIds :
        LET moves == get_game(games, id).moves
        IN  /\ \A k \in 1..Len(moves) :
                  moves[k].player = IF (k - 1) % 2 = 0 THEN PlayerX ELSE PlayerO
            /\ \A k \in 1..(Len(moves) - 1) : moves[k].player # moves[k + 1].player
            /\ \A k \in 1..Len(moves), l \in 1..Len(moves) :
                  (k # l) => <<moves[k].row, moves[k].col>> # <<moves[l].row, moves[l].col>>

C17_Witness ==
    \E id \in StoredIds :
        /\ Len(get_game(games, id).moves) = 9
        /\ get_game(games, id).moves[9].player = PlayerX

\* C19: a stored game that is IN_PROGRESS has a make_move that succeeds (the
\* next player on some empty cell); the number of stored moves equals the number
\* of non-empty cells of the stored board and is at most 9; with 9 stored moves
\* the status is terminal.
C19_GamesFinish ==
    \A id \in StoredIds :
        LET game == get_game(games, id)
            marks == CountMark(game.board, PlayerX) + CountMark(game.board, PlayerO)
        IN  /\ Len(game.moves) = marks
            /\ Len(game.moves) <= 9
            /\ Len(game.moves) = 9 => game.status \in TerminalStatuses
            /\ game.status = IN_PROGRESS =>
                  \E row \in Idx, col \in Idx :
                      /\ game.board[row][col] = None
                      /\ MoveOutcome(game, get_next_player(game.board), row, col, clock).error = None

C19_Witness ==
    \E id \in StoredIds :
        /\ get_game(games, id).status = IN_PROGRESS
        /\ Len(get_game(games, id).moves) = 8

\* The board after the first k moves of a move list, placed one by one on the
\* empty board
RECURSIVE Replay(_, _)
Replay(moves, k) ==
    IF k = 0 THEN [i \in Idx |-> [j \in Idx |-> None]]
    ELSE [Replay(moves, k - 1) EXCEPT ![moves[k].row][moves[k].col] = moves[k].player]

C18_ResponseIsOwnState ==
    [][\A c \in ClientIds :
          (clients[c].pc = "refetch" /\ clients'[c].pc = "idle") =>
              LET mine == clients[c].out.moves[Len(clients[c].out.moves)]
                  body == resp'.body
              IN  /\ Len(body.moves) > 0
                  /\ body.moves[Len(body.moves)] = mine
                  /\ body.board[mine.row][mine.col] = mine.player
                  /\ body.status = get_game_status(body.board)]_vars

\* C13: list_games(limit, offset) with limit, offset >= 0 returns the stored
\* games by id descending, the first offset games skipped and at most limit
\* returned: min(limit, max(0, N - offset)) items for N stored games, each with
\* the id, status, winner and timestamps of its game; the store is unchanged.
C13_ListGames ==
    [][resp'.op = "list_games" =>
          LET N == Len(games)
              rest == IF N - resp'.offset > 0 THEN N - resp'.offset ELSE 0
              count == IF resp'.limit < rest THEN resp'.limit ELSE rest
              items == resp'.items
          IN  /\ games' = games
              /\ Len(items) = count
              /\ \A k \in 1..count :
                    LET id == N - resp'.offset - k + 1
                    IN  /\ items[k].id = id
                        /\ games[id].id = id
                        /\ items[k].status = games[id].status
                        /\ items[k].winner = games[id].winner
                        /\ items[k].created_at = games[id].created_at
                        /\ items[k].finished_at = games[id].finished_at
                        /\ DOMAIN items[k] = {"id", "status", "winner", "created_at", "finished_at"}]_vars

C13_Witness ==
    /\ resp.op = "list_games" /\ Len(games) = 3
    /\ resp.limit = 2 /\ resp.offset = 0
    /\ Len(resp.items) = 2
    /\ resp.items[1].id = 3 /\ resp.items[2].id = 2
    /\ resp.items[2].status = WINNER_X /\ resp.items[2].winner = PlayerX

\* C14: start_game adds one record under an id no stored game has, with an
\* all-empty board, no moves, status IN_PROGRESS, no winner and no finished_at,
\* whatever first_player it is given, and answers 201 with that record's view.
C14_StartGame ==
    [][resp'.op = "start_game" =>
          LET n == Len(games')
          IN  /\ n = Len(games) + 1
              /\ \A id \in StoredIds : games'[n].id # games[id].id
              /\ LET game == GameDict(games'[n])
                 IN  /\ game.board = [i \in Idx |-> [j \in Idx |-> None]]
                     /\ game.moves = <<>>
                     /\ game.status = IN_PROGRESS
                     /\ game.winner = None
                     /\ game.finished_at = NoTime
                     /\ resp'.code = 201
                     /\ resp'.body = GameView(game)]_vars

C14_Witness ==
    /\ resp.op = "start_game" /\ resp.code = 201 /\ resp.body.id = 3
    /\ Len(games) = 3
    /\ games[1].status = WINNER_X
    /\ Len(games[2].moves) = 2

\* C20: a make_move on game g, accepted or rejected, and a start_game leave
\* every other stored game as it was; get_game and list_games leave every
\* stored game as it was.
C20_GamesIsolated ==
    [][/\ resp'.op = "make_move" =>
             \A id \in StoredIds \ {resp'.game_id} : games'[id] = games[id]
       /\ resp'.op = "start_game" =>
             \A id \in StoredIds : games'[id] = games[id]
       /\ resp'.op \in {"get_game", "list_games"} => games' = games]_vars

C20_Witness ==
    /\ resp.op = "make_move" /\ resp.code = 200 /\ resp.game_id = 2
    /\ Len(games) = 3
    /\ Len(games[1].moves) = 3
    /\ Len(games[2].moves) = 7
    /\ Len(games[3].moves) = 1

====
